---- MODULE Spec2Model ----
(***************************************************************************)
(* Model of n0-snafu's unified error value (src/src/error.rs): the context *)
(* attachment layer (ResultExt), the four-variant Error, the causal chain  *)
(* walker Error::stack, Display, and the Debug renderer with its frame     *)
(* filters; and of the termination report (src/src/report.rs): Report, its *)
(* formatter, the text-cleaning toggle and the CleanedErrorText iterator.  *)
(*                                                                         *)
(* Encoding conventions                                                    *)
(*   Option<X>      a sequence of length 0 (None) or 1 (Some(x))           *)
(*   String         a sequence of text tokens; concatenation is \o         *)
(*   foreign error  a non-empty sequence of links: the error itself, its   *)
(*                  source(), the source of that, ...                      *)
(***************************************************************************)
EXTENDS Integers, Sequences, FiniteSets, TLC

VARIABLES
    env,        \* process environment read by the capture primitives
    outcome,    \* the Result / Option value the program currently holds
    last,       \* the call that produced outcome: its name, its input, its effects
    out,        \* Option: what the last Debug formatting of outcome's Error wrote
    report,     \* Option: the Report the program built, and the constructor used
    stderr,     \* what the program wrote to the error stream, in order
    exit,       \* Option: the exit status Report::report returned
    toggle,     \* SNAFU_RAW_ERROR_MESSAGES, the DISABLED cell, the calls made so far
    walk        \* Option: a CleanedErrorText iterator and the items it has yielded

vars == <<env, outcome, last, out, report, stderr, exit, toggle, walk>>

----------------------------------------------------------------------------
(* Bounds *)

\* longest declared-cause chain of a foreign error
MaxChain == 2
\* deepest nesting of Error values (number of re-wraps of one Error)
MaxWraps == 2
\* longest backtrace fed to the frame filters in SpecFilter
MaxFrames == 3
\* longest display text of the innermost error fed to CleanedErrorText
MaxText == 3
\* deepest cause chain (the error included) of an error that is reported or cleaned
MaxLevels == 3

None == <<>>
Some(x) == <<x>>
IsSome(o) == Len(o) = 1
Unwrap(o) == o[1]

\* all sequences over S of length 1..n
RECURSIVE SeqsUpTo(_, _)
SeqsUpTo(S, n) ==
    IF n = 0 THEN {}
    ELSE LET shorter == SeqsUpTo(S, n - 1)
         IN  {<<x>> : x \in S} \cup shorter
                \cup {<<x>> \o s : x \in S, s \in shorter}

\* str::starts_with, on token sequences
StartsWith(name, prefix) ==
    /\ Len(prefix) <= Len(name)
    /\ SubSeq(name, 1, Len(prefix)) = prefix

----------------------------------------------------------------------------
(* Stack frames.  A frame has an optional symbol name and the verdict of   *)
(* color_backtrace's Frame::is_dependency_code for it.                     *)

Frame(name, dep) == [name |-> name, dep |-> dep]

NameErrorFrom     == <<"<n0_snafu::", "error", "::Error", " as core::convert::From<E1>>::from">>
NameErrorAnyhow   == <<"n0_snafu::", "error", "::Error", "::anyhow">>
NameTestErrorFmt  == <<"<n0_snafu::", "testerror", "::Error", " as core::fmt::Debug>::fmt">>
NameTestErrAnyhow == <<"n0_snafu::", "testerror", "::Error", "::anyhow", "::{{closure}}">>
NamePoll          == <<"<core::pin::Pin<P> as core::future::future::Future>::poll">>
NameFromResidual  == <<"<core::result::Result<T,F> as core::ops::try_trait::FromResidual<core::result::Result<core::convert::Infallible,E>>>::from_residual">>
NameUserMain      == <<"app::", "main">>
NameStdFs         == <<"std::", "fs::read">>

\* the fixed list of frame-name prefixes the Debug renderer drops
filters ==
    << <<"<n0_snafu::", "testerror", "::Error">>,
       <<"n0_snafu::", "testerror", "::Error", "::anyhow">>,
       NamePoll,
       NameFromResidual >>

\* the call stack below every capture point of the modelled program
CallStack == << Frame(Some(NameStdFs), TRUE), Frame(Some(NameUserMain), FALSE) >>

\* backtrace carried by a foreign error that captured one when it was built
LinkStack == << Frame(Some(<<"app::", "load">>), FALSE) >> \o CallStack

NameGenerate == <<"snafu::", "backtrace_impl::", "generate">>

----------------------------------------------------------------------------
(* Capture primitives (snafu::GenerateImplicitData)                        *)

SpanStatuses == {"EMPTY", "CAPTURED"}
Envs == [bt : BOOLEAN, span : SpanStatuses]

\* SpanTrace::generate: the span trace captured at the call site
GenerateSpanTrace == [status |-> env.span]

\* Option<snafu::Backtrace>::generate: a backtrace when collection is enabled in
\* the environment, None otherwise.  within is the frames of this crate's
\* functions standing between the capture and the caller (the ResultExt and
\* FromString methods are inlined into their caller and leave none).
GenerateBacktrace(within) ==
    IF env.bt
    THEN Some(<<Frame(Some(NameGenerate), TRUE)>> \o within \o CallStack)
    ELSE None

----------------------------------------------------------------------------
(* Foreign errors.  kind is the concrete type's relation to the traits:    *)
(*   "Plain"        implements snafu::Error only (std::io::Error)          *)
(*   "Compat"       implements snafu::Error + snafu::ErrorCompat, hence    *)
(*                  Formatted through the blanket impl                     *)
(*   "RefFormatted" the concrete type is &'static dyn Formatted            *)
(* backtrace is what ErrorCompat::backtrace / Formatted::backtrace of the  *)
(* link (or, for a reference, of its referent) returns.                    *)

Link(text, kind, backtrace) == [text |-> text, kind |-> kind, backtrace |-> backtrace]

IoError     == Link(<<"sad IO">>, "Plain", None)
StructError == Link(<<"This is a struct error">>, "Compat",
                    IF env.bt THEN Some(LinkStack) ELSE None)
RefError    == Link(<<"A failure">>, "RefFormatted",
                    IF env.bt THEN Some(LinkStack) ELSE None)
NoneError   == Link(<<"Expected some, found none">>, "Compat", None)

Links == {IoError, StructError, RefError}
Chains == SeqsUpTo(Links, MaxChain)

\* <dyn Error>::source as seen from the head of a chain
SourceOf(chain) == IF Len(chain) > 1 THEN Some(Tail(chain)) ELSE None

\* impl Formatted for T: the blanket impl reaches ErrorCompat::backtrace
FormattedBacktrace(link) ==
    IF IsSome(link.backtrace)
    THEN Some([repr |-> "Crate", frames |-> Unwrap(link.backtrace)])
    ELSE None

\* an anyhow::Error: its chain and the std backtrace anyhow captured
AnyhowError(chain) ==
    [chain |-> chain,
     backtrace |-> IF env.bt
                   THEN [status |-> "Captured",
                         frames |-> <<Frame(Some(<<"anyhow::", "error::", "from">>), TRUE)>> \o CallStack]
                   ELSE [status |-> "Disabled", frames |-> <<>>]]

----------------------------------------------------------------------------
(* The Error enum.  All variants share one record shape; source is the     *)
(* foreign chain (Source, Message), the anyhow::Error wrapped in a         *)
(* one-element sequence (Anyhow) or an Option<Box<Error>> (Whatever).      *)

ErrorValue(variant, message, span_trace, source, backtrace) ==
    [variant |-> variant, message |-> message, span_trace |-> span_trace,
     source |-> source, backtrace |-> backtrace]

\* number of Error values nested inside e
RECURSIVE Depth(_)
Depth(e) ==
    IF e.variant = "Whatever" /\ IsSome(e.source)
    THEN 1 + Depth(Unwrap(e.source))
    ELSE 0

\* the value held by the program: ty is its static type
Outcome(ty, ok, err) == [ty |-> ty, ok |-> ok, err |-> err]
IsOk(o)  == IsSome(o.ok)
IsErr(o) == ~IsSome(o.ok)

Values == {"v"}

\* what one call did: its return value, how many GenerateImplicitData::generate
\* calls it made, how many times it invoked the lazy message producer
Call(ret, generated, produced) ==
    [ret |-> ret, generated |-> generated, produced |-> produced]

OkError(v)  == Outcome("Result<T,Error>", Some(v), None)
ErrError(e) == Outcome("Result<T,Error>", None, Some(e))

----------------------------------------------------------------------------
(* impl<T, E> ResultExt<T> for Result<T, E>                                *)

ForeignContext(self, context) ==
    IF IsOk(self)
    THEN Call(OkError(Unwrap(self.ok)), 0, 0)
    ELSE Call(ErrError(ErrorValue("Message", Some(context), GenerateSpanTrace,
                    Unwrap(self.err),
                    GenerateBacktrace(<<>>))),
              2, 0)

ForeignE(self) ==
    IF IsOk(self)
    THEN Call(OkError(Unwrap(self.ok)), 0, 0)
    ELSE Call(ErrError(ErrorValue("Message", None, GenerateSpanTrace,
                    Unwrap(self.err),
                    GenerateBacktrace(<<>>))),
              2, 0)

\* context is the producer; produces is the String it returns when invoked
ForeignWithContext(self, produces) ==
    IF IsOk(self)
    THEN Call(OkError(Unwrap(self.ok)), 0, 0)
    ELSE Call(ErrError(ErrorValue("Message", Some(produces), GenerateSpanTrace,
                    Unwrap(self.err),
                    GenerateBacktrace(<<>>))),
              2, 1)

----------------------------------------------------------------------------
(* impl<T> ResultExt<T> for Result<T, Error>                               *)

ErrorContext(self, context) ==
    IF IsOk(self)
    THEN Call(OkError(Unwrap(self.ok)), 0, 0)
    ELSE Call(ErrError(ErrorValue("Whatever", Some(context), GenerateSpanTrace,
                    Some(Unwrap(self.err)),
                    GenerateBacktrace(<<>>))),
              2, 0)

ErrorE(self) ==
    IF IsOk(self)
    THEN Call(OkError(Unwrap(self.ok)), 0, 0)
    ELSE Call(ErrError(ErrorValue("Whatever", None, GenerateSpanTrace,
                    Some(Unwrap(self.err)),
                    GenerateBacktrace(<<>>))),
              2, 0)

\* ErrorWithContext computing the message before looking at self
ErrorWithContextEager(self, produces) ==
    IF IsOk(self)
    THEN Call(OkError(Unwrap(self.ok)), 0, 1)
    ELSE Call(ErrError(ErrorValue("Whatever", Some(produces), GenerateSpanTrace,
                    Some(Unwrap(self.err)), GenerateBacktrace(<<>>))),
              2, 1)

ErrorWithContext(self, produces) ==
    IF IsOk(self)
    THEN Call(OkError(Unwrap(self.ok)), 0, 0)
    ELSE Call(ErrError(ErrorValue("Whatever", Some(produces), GenerateSpanTrace,
                    Some(Unwrap(self.err)),
                    GenerateBacktrace(<<>>))),
              2, 1)

----------------------------------------------------------------------------
(* impl<T> ResultExt<T> for Option<T>                                      *)

OptionContext(self, context) ==
    IF IsOk(self)
    THEN Call(OkError(Unwrap(self.ok)), 0, 0)
    ELSE Call(ErrError(ErrorValue("Message", Some(context), GenerateSpanTrace,
                    <<NoneError>>,
                    GenerateBacktrace(<<>>))),
              2, 0)

OptionE(self) ==
    IF IsOk(self)
    THEN Call(OkError(Unwrap(self.ok)), 0, 0)
    ELSE Call(ErrError(ErrorValue("Message", None, GenerateSpanTrace,
                    <<NoneError>>,
                    GenerateBacktrace(<<>>))),
              2, 0)

\* OptionWithContext building the Error without the NoneError cause
OptionWithContextNoCause(self, produces) ==
    IF IsOk(self)
    THEN Call(OkError(Unwrap(self.ok)), 0, 0)
    ELSE Call(ErrError(ErrorValue("Whatever", Some(produces), GenerateSpanTrace,
                    None, GenerateBacktrace(<<>>))),
              2, 1)

OptionWithContext(self, produces) ==
    IF IsOk(self)
    THEN Call(OkError(Unwrap(self.ok)), 0, 0)
    ELSE Call(ErrError(ErrorValue("Message", Some(produces), GenerateSpanTrace,
                    <<NoneError>>,
                    GenerateBacktrace(<<>>))),
              2, 1)

----------------------------------------------------------------------------
(* Direct constructors                                                     *)

\* impl<E1: Formatted + Send + Sync + 'static> From<E1> for Error
FromFormatted(value) ==
    ErrorValue("Source", None, GenerateSpanTrace, value, GenerateBacktrace(<<Frame(Some(NameErrorFrom), FALSE)>>))

\* Error::anyhow
anyhow(err) ==
    ErrorValue("Anyhow", None, GenerateSpanTrace, err, GenerateBacktrace(<<Frame(Some(NameErrorAnyhow), FALSE)>>))

\* FromString::without_source
without_source(message) ==
    ErrorValue("Whatever", Some(message), GenerateSpanTrace, None,
               GenerateBacktrace(<<>>))

\* FromString::with_source
with_source(source, message) ==
    ErrorValue("Whatever", Some(message), GenerateSpanTrace, Some(source),
               GenerateBacktrace(<<>>))

----------------------------------------------------------------------------
(* Display                                                                 *)

\* impl Display for Error
RECURSIVE Display(_)

\* Display writing the "{}: {}" form whether or not there is a message
DisplayAlwaysSeparated(e) ==
    CASE e.variant = "Source"  -> e.source[1].text
      [] e.variant = "Whatever" ->
            IF IsSome(e.source)
                THEN (IF IsSome(e.message) THEN Unwrap(e.message) ELSE <<>>)
                     \o <<": ">> \o Display(Unwrap(e.source))
            ELSE IF IsSome(e.message) THEN Unwrap(e.message)
            ELSE <<"Error">>
      [] e.variant = "Message" ->
            (IF IsSome(e.message) THEN Unwrap(e.message) ELSE <<>>)
            \o <<": ">> \o e.source[1].text
      [] e.variant = "Anyhow"  -> e.source.chain[1].text

Display(e) ==
    CASE e.variant = "Source"  -> e.source[1].text
      [] e.variant = "Whatever" ->
            IF IsSome(e.source) /\ IsSome(e.message)
                THEN Unwrap(e.message) \o <<": ">> \o Display(Unwrap(e.source))
            ELSE IF IsSome(e.message)
                THEN Unwrap(e.message)
            ELSE IF IsSome(e.source)
                THEN Display(Unwrap(e.source))
            ELSE <<"Error">>
      [] e.variant = "Message" ->
            IF IsSome(e.message)
                THEN Unwrap(e.message) \o <<": ">> \o e.source[1].text
                ELSE e.source[1].text
      [] e.variant = "Anyhow"  -> e.source.chain[1].text

----------------------------------------------------------------------------
(* Error::stack                                                            *)

Node(backtrace, source) == [backtrace |-> backtrace, source |-> source]

Root            == [tag |-> "Root", ref |-> None]
Formatted(e)    == [tag |-> "Formatted", ref |-> Some(e)]
SnafuError(e)   == [tag |-> "SnafuError", ref |-> Some(e)]
SourceError(e)  == [tag |-> "Error", ref |-> Some(e)]
SourceAnyhow(e) == [tag |-> "Anyhow", ref |-> Some(e)]

Crate(bt) == [repr |-> "Crate", frames |-> bt]
Std(bt)       == [repr |-> "Std", inner |-> bt]

\* Error::backtrace
Backtrace(e) ==
    IF IsSome(e.backtrace) THEN Some(Crate(Unwrap(e.backtrace))) ELSE None

\* s.downcast_ref::<&dyn Formatted>(): Some exactly when the concrete type of the
\* error behind s is &'static dyn Formatted
DowncastRefFormatted(link) == link.kind = "RefFormatted"

\* body of the probe loops: one node per link
Probe(s) ==
    IF DowncastRefFormatted(s)
    THEN Node(FormattedBacktrace(s), Formatted(s))
    ELSE Node(None, SnafuError(s))

\* while let Some(s) = source { ...; source = s.source(); }
\* ProbeLoop starting one link too late
ProbeLoopSkipsHead(source) ==
    IF IsSome(source) /\ Len(Unwrap(source)) > 1
    THEN [i \in 1..(Len(Unwrap(source)) - 1) |-> Probe(Unwrap(source)[i + 1])]
    ELSE <<>>

RECURSIVE ProbeLoop(_)
ProbeLoop(source) ==
    IF IsSome(source)
    THEN <<Probe(Unwrap(source)[1])>> \o ProbeLoop(SourceOf(Unwrap(source)))
    ELSE <<>>

\* the Source arm treating the wrapped error as one more declared cause
StackForeignProbesWrapped(e) ==
    CASE e.variant = "Source" ->
            <<Node(Backtrace(e), Root)>> \o ProbeLoop(Some(e.source))
      [] e.variant = "Message" ->
            <<Node(Backtrace(e), Root)>> \o ProbeLoop(Some(e.source))
      [] e.variant = "Anyhow" ->
            <<Node(Backtrace(e), Root),
              Node(Some(Std(e.source.backtrace)), SourceAnyhow(e.source))>>
            \o [i \in 1..(Len(e.source.chain) - 1) |-> Probe(e.source.chain[i + 1])]

\* the Anyhow arm walking source.chain() without skip(1)
StackForeignWholeChain(e) ==
    CASE e.variant = "Source" ->
            <<Node(Backtrace(e), Root),
              Node(FormattedBacktrace(e.source[1]), Formatted(e.source[1]))>>
            \o ProbeLoop(SourceOf(e.source))
      [] e.variant = "Message" ->
            <<Node(Backtrace(e), Root)>> \o ProbeLoop(Some(e.source))
      [] e.variant = "Anyhow" ->
            <<Node(Backtrace(e), Root),
              Node(Some(Std(e.source.backtrace)), SourceAnyhow(e.source))>>
            \o [i \in 1..Len(e.source.chain) |-> Probe(e.source.chain[i])]

\* Error::stack, the arms of the variants that hold a foreign error
StackForeign(e) ==
    CASE e.variant = "Source" ->
            <<Node(Backtrace(e), Root),
              Node(FormattedBacktrace(e.source[1]), Formatted(e.source[1]))>>
            \o ProbeLoop(SourceOf(e.source))
      [] e.variant = "Message" ->
            <<Node(Backtrace(e), Root)>> \o ProbeLoop(Some(e.source))
      [] e.variant = "Anyhow" ->
            <<Node(Backtrace(e), Root),
              Node(Some(Std(e.source.backtrace)), SourceAnyhow(e.source))>>
            \o [i \in 1..(Len(e.source.chain) - 1) |-> Probe(e.source.chain[i + 1])]

RECURSIVE stack(_)

\* stack appending the nested stack right after the Root node
stackWithoutNestedNode(e) ==
    IF e.variant = "Whatever"
    THEN <<Node(Backtrace(e), Root)>>
         \o (IF IsSome(e.source) THEN stack(Unwrap(e.source)) ELSE <<>>)
    ELSE StackForeign(e)

\* stack giving the nested Error's node the outer Error's backtrace
stackOuterBacktrace(e) ==
    IF e.variant = "Whatever"
    THEN <<Node(Backtrace(e), Root)>>
         \o (IF IsSome(e.source)
             THEN <<Node(Backtrace(e), SourceError(Unwrap(e.source)))>>
                  \o stack(Unwrap(e.source))
             ELSE <<>>)
    ELSE StackForeign(e)

\* stack putting the outer Root after the nested nodes
stackRootLast(e) ==
    IF e.variant = "Whatever"
    THEN (IF IsSome(e.source)
          THEN stack(Unwrap(e.source))
               \o <<Node(Backtrace(Unwrap(e.source)), SourceError(Unwrap(e.source)))>>
          ELSE <<>>)
         \o <<Node(Backtrace(e), Root)>>
    ELSE StackForeign(e)

\* Error::stack
stack(e) ==
    IF e.variant = "Whatever"
    THEN <<Node(Backtrace(e), Root)>>
         \o (IF IsSome(e.source)
             THEN <<Node(Backtrace(Unwrap(e.source)), SourceError(Unwrap(e.source)))>>
                  \o stack(Unwrap(e.source))
             ELSE <<>>)
    ELSE StackForeign(e)

\* <Error as snafu::ErrorCompat>::backtrace: Option of a reference to the
\* snafu::Backtrace held by a node of stack(), given as the node's position
\* and the frames
ErrorCompatBacktraceOfRoot(e) ==
    LET st == stack(e)
    IN  IF IsSome(st[1].backtrace) /\ Unwrap(st[1].backtrace).repr = "Crate"
        THEN Some([node |-> 1, frames |-> Unwrap(st[1].backtrace).frames])
        ELSE None
ErrorCompatBacktrace(e) ==
    LET st   == stack(e)
        node == st[Len(st)]
    IN  IF IsSome(node.backtrace) /\ Unwrap(node.backtrace).repr = "Crate"
        THEN Some([node |-> Len(st), frames |-> Unwrap(node.backtrace).frames])
        ELSE None

\* impl Display for Source
SourceDisplay(source) ==
    CASE source.tag = "Root"       -> <<"Root">>
      [] source.tag = "Formatted"  -> Unwrap(source.ref).text
      [] source.tag = "Error"      -> Display(Unwrap(source.ref))
      [] source.tag = "SnafuError" -> Unwrap(source.ref).text
      [] source.tag = "Anyhow"     -> Unwrap(source.ref).chain[1].text

----------------------------------------------------------------------------
(* impl Debug for Error                                                    *)

Verbosity == {"Minimal", "Medium", "Full"}

\* NoiseFilter dropping the frames that have no name
NoiseFilterDropsUnnamed(fs) ==
    SelectSeq(fs, LAMBDA frame :
        IF IsSome(frame.name)
        THEN ~ \E k \in 1..Len(filters) : StartsWith(Unwrap(frame.name), filters[k])
        ELSE FALSE)

\* first frame filter: frames.retain(|frame| no filter is a prefix of its name)
NoiseFilter(fs) ==
    SelectSeq(fs, LAMBDA frame :
        IF IsSome(frame.name)
        THEN ~ \E k \in 1..Len(filters) : StartsWith(Unwrap(frame.name), filters[k])
        ELSE TRUE)

\* second frame filter: frames.retain(|frame| !frame.is_dependency_code())
DependencyFilter(fs) == SelectSeq(fs, LAMBDA frame : ~ frame.dep)

\* the frame filters added to the printer, applied in the order they were added
PrinterFilters(v, fs) ==
    IF v # "Full" THEN DependencyFilter(NoiseFilter(fs)) ELSE NoiseFilter(fs)

\* impl color_backtrace::Backtrace for Backtrace: Option of the frames.  A Crate
\* backtrace yields its frames.  A Std backtrace goes through btparse::deserialize
\* and .expect: a captured one parses to its frames; one that was not captured
\* prints as "<disabled>", which btparse rejects, and the expect panics (None).
frames(bt) ==
    IF bt.repr = "Crate" THEN Some(bt.frames)
    ELSE IF bt.inner.status = "Captured" THEN Some(bt.inner.frames)
    ELSE None

Line(kind, index, text, shown) ==
    [kind |-> kind, index |-> index, text |-> text, frames |-> shown]
BlankLine == Line("blank", 0, <<>>, <<>>)

\* for (i, (_, source)) in stack.iter().skip(1).enumerate(): the cause lines
CauseLines(st) ==
    LET rest == Tail(st)
        idx  == SelectSeq([i \in 1..Len(rest) |-> i],
                          LAMBDA i : rest[i].source.tag # "Root")
    IN  [k \in 1..Len(idx) |->
            Line("cause", idx[k] - 1, SourceDisplay(rest[idx[k]].source), <<>>)]

\* the span trace block
SpanLines(e) ==
    IF e.span_trace.status = "CAPTURED"
    THEN <<Line("span header", 0, <<"Span trace:">>, <<>>),
           Line("span", 0, <<>>, <<>>), BlankLine>>
    ELSE <<>>

\* the backtrace rendered for a node: its own, or the empty placeholder
NodeBacktrace(node) ==
    IF IsSome(node.backtrace) THEN Unwrap(node.backtrace) ELSE Crate(<<>>)

\* for (bt, _) in stack.into_iter(): one block per node, up to the first node
\* whose frames() panics
BacktraceBlocks(v, st) ==
    LET parse == [i \in 1..Len(st) |-> frames(NodeBacktrace(st[i]))]
        bad   == {i \in 1..Len(st) : ~ IsSome(parse[i])}
        n     == IF bad = {} THEN Len(st)
                 ELSE (CHOOSE i \in bad : \A j \in bad : i <= j) - 1
    IN  [text |-> [j \in 1..(2 * n) |->
                     IF j % 2 = 1 THEN BlankLine
                     ELSE Line("backtrace", 0, <<>>,
                               PrinterFilters(v, Unwrap(parse[j \div 2])))],
         finished |-> bad = {}]

\* fmt with a printer kept from the formatting before, its filters included
fmtKeepsPrinter(e, v) ==
    LET st     == stack(e)
        blocks == BacktraceBlocks(IF IsSome(out) THEN Unwrap(out).verb ELSE v, st)
    IN  [verb |-> v,
         text |-> <<BlankLine>> \o CauseLines(st) \o <<BlankLine>> \o SpanLines(e)
                  \o blocks.text,
         finished |-> blocks.finished]

\* <Error as Debug>::fmt
fmt(e, v) ==
    LET st     == stack(e)
        blocks == BacktraceBlocks(v, st)
    IN  [verb |-> v,
         text |-> <<BlankLine>> \o CauseLines(st) \o <<BlankLine>> \o SpanLines(e)
                  \o blocks.text,
         finished |-> blocks.finished]

----------------------------------------------------------------------------
(* The program: one action per operation                                   *)

\* the messages call sites attach
Msgs == {<<"failed">>}

ForeignResults ==
    {Outcome("Result<T,E>", Some(v), None) : v \in Values}
        \cup {Outcome("Result<T,E>", None, Some(c)) : c \in Chains}
Options ==
    {Outcome("Option<T>", Some(v), None) : v \in Values}
        \cup {Outcome("Option<T>", None, None)}
AnyhowResults ==
    {Outcome("anyhow::Result<T>", Some(v), None) : v \in Values}
        \cup {Outcome("anyhow::Result<T>", None, Some(AnyhowError(c))) : c \in Chains}

NoCall == [op |-> "input", input |-> None, generated |-> 0, produced |-> 0]

\* the OnceBool cell DISABLED before its first use, and no call made yet
Untouched(v) == [var |-> v, DISABLED |-> None, first |-> None, returned |-> None]

\* a program that builds no Report, never asks for the toggle and cleans no text
NoReport ==
    /\ report = None
    /\ stderr = <<>>
    /\ exit = None
    /\ toggle = Untouched(None)
    /\ walk = None

Init ==
    /\ env \in Envs
    /\ outcome \in ForeignResults \cup Options \cup AnyhowResults
    /\ last = NoCall
    /\ out = None
    /\ NoReport

\* the Err of a Result<T, Error> may be wrapped once more
CanWrap ==
    (outcome.ty = "Result<T,Error>" /\ IsErr(outcome))
        => Depth(Unwrap(outcome.err)) < MaxWraps

HasExt == outcome.ty \in {"Result<T,E>", "Result<T,Error>", "Option<T>"}

Return(op, call) ==
    /\ outcome' = call.ret
    /\ last' = [op |-> op, input |-> Some(outcome),
                generated |-> call.generated, produced |-> call.produced]
    /\ out' = None
    /\ UNCHANGED <<env, report, stderr, exit, toggle, walk>>

\* outcome.context(context)
Context ==
    \E context \in Msgs :
        /\ HasExt /\ CanWrap
        /\ Return("context",
                  CASE outcome.ty = "Result<T,E>"     -> ForeignContext(outcome, context)
                    [] outcome.ty = "Result<T,Error>" -> ErrorContext(outcome, context)
                    [] outcome.ty = "Option<T>"       -> OptionContext(outcome, context))

\* outcome.with_context(|| produces)
WithContext ==
    \E produces \in Msgs :
        /\ HasExt /\ CanWrap
        /\ Return("with_context",
                  CASE outcome.ty = "Result<T,E>"     -> ForeignWithContext(outcome, produces)
                    [] outcome.ty = "Result<T,Error>" -> ErrorWithContext(outcome, produces)
                    [] outcome.ty = "Option<T>"       -> OptionWithContext(outcome, produces))

\* outcome.e()
E ==
    /\ HasExt /\ CanWrap
    /\ Return("e",
              CASE outcome.ty = "Result<T,E>"     -> ForeignE(outcome)
                [] outcome.ty = "Result<T,Error>" -> ErrorE(outcome)
                [] outcome.ty = "Option<T>"       -> OptionE(outcome))

\* the ? operator on Err(E1), E1: Formatted, in a function returning Result<_, Error>
From ==
    /\ outcome.ty = "Result<T,E>" /\ IsErr(outcome)
    /\ Unwrap(outcome.err)[1].kind = "Compat"
    /\ Return("from", Call(ErrError(FromFormatted(Unwrap(outcome.err))), 2, 0))

\* outcome.map_err(Error::anyhow)
MapErrAnyhow ==
    /\ outcome.ty = "anyhow::Result<T>"
    /\ Return("anyhow",
              IF IsOk(outcome)
              THEN Call(OkError(Unwrap(outcome.ok)), 0, 0)
              ELSE Call(ErrError(anyhow(Unwrap(outcome.err))), 2, 0))

\* Err(format_err!(..)) / snafu::whatever!(..)
WithoutSource ==
    \E message \in Msgs :
        /\ outcome' = ErrError(without_source(message))
        /\ last' = [op |-> "without_source", input |-> None, generated |-> 2, produced |-> 0]
        /\ out' = None
        /\ UNCHANGED <<env, report, stderr, exit, toggle, walk>>

\* snafu::whatever!(outcome, ..) on Err(Error)
WithSource ==
    \E message \in Msgs :
        /\ outcome.ty = "Result<T,Error>" /\ IsErr(outcome) /\ CanWrap
        /\ Return("with_source",
                  Call(ErrError(with_source(Unwrap(outcome.err), message)), 2, 0))

\* format!("{:?}", err) on the Error held; Verbosity::from_env() is read at
\* each call.  again records that this Error had been formatted before.
DebugFmt ==
    /\ outcome.ty = "Result<T,Error>" /\ IsErr(outcome)
    /\ \E v \in Verbosity :
            out' = Some(fmt(Unwrap(outcome.err), v) @@ [again |-> IsSome(out)])
    /\ UNCHANGED <<env, outcome, last, report, stderr, exit, toggle, walk>>

Next ==
    \/ Context
    \/ WithContext
    \/ E
    \/ From
    \/ MapErrAnyhow
    \/ WithoutSource
    \/ WithSource
    \/ DebugFmt

Spec == Init /\ [][Next]_vars

----------------------------------------------------------------------------
(* The frame filters on arbitrary backtraces: Errors built by format_err!  *)
(* at call sites with every call stack up to MaxFrames frames, then        *)
(* Debug-formatted.                                                        *)

FrameSet ==
    { Frame(Some(NameUserMain), FALSE),
      Frame(Some(NameStdFs), TRUE),
      Frame(None, FALSE),
      Frame(None, TRUE),
      Frame(Some(NameErrorFrom), FALSE),
      Frame(Some(NameTestErrorFmt), FALSE),
      Frame(Some(NameTestErrAnyhow), FALSE),
      Frame(Some(NamePoll), TRUE),
      Frame(Some(NameFromResidual), TRUE) }

InitFilter ==
    /\ env \in {e \in Envs : e.bt}
    /\ outcome \in
         {ErrError(ErrorValue("Whatever", Some(m), GenerateSpanTrace, None, Some(fs))) :
            m \in Msgs, fs \in SeqsUpTo(FrameSet, MaxFrames) \cup {<<>>}}
    /\ last = [op |-> "without_source", input |-> None, generated |-> 2, produced |-> 0]
    /\ out = None
    /\ NoReport

SpecFilter == InitFilter /\ [][DebugFmt]_vars

----------------------------------------------------------------------------
(* The termination report (src/src/report.rs).  Display texts are          *)
(* sequences of single characters here, so that trimming acts on them as   *)
(* it does on a str.                                                       *)

\* the characters display texts are made of: a letter, the colon, a space
Chars == {"a", ":", " "}
Strings(n) == {<<>>} \cup SeqsUpTo(Chars, n)

\* what an error says of itself, before the text of its cause if it repeats it
OwnTexts == { <<"a">>, <<"a", ":">>, <<"a", " ">>, <<":">> }

\* an error type implementing snafu::Error + ErrorCompat (hence Formatted)
\* whose Display is text; it captured a backtrace if collection is enabled
ReportedError(text) == Link(text, "Compat", IF env.bt THEN Some(LinkStack) ELSE None)

\* the errors that declare cause as their source: Display is their own text,
\* or their own text, ": " and the Display of the cause
Wrapping(cause, own) ==
    {<<ReportedError(t)>> \o cause : t \in own}
        \cup {<<ReportedError(t \o <<":", " ">> \o cause[1].text)>> \o cause : t \in own}

\* error chains of up to n levels over the given innermost and own texts
RECURSIVE ErrorChains(_, _, _)
ErrorChains(innermost, own, n) ==
    IF n = 1 THEN {<<ReportedError(t)>> : t \in innermost}
    ELSE LET shorter == ErrorChains(innermost, own, n - 1)
         IN  shorter \cup UNION {Wrapping(c, own) : c \in {d \in shorter : Len(d) = n - 1}}

\* str::ends_with(pat)
EndsWith(s, pat) ==
    /\ Len(pat) <= Len(s)
    /\ SubSeq(s, Len(s) - Len(pat) + 1, Len(s)) = pat

\* str::trim_end_matches(pat): every repeated trailing match of pat is removed;
\* an empty pattern removes nothing
RECURSIVE trim_end_matches(_, _)
trim_end_matches(s, pat) ==
    IF pat # <<>> /\ EndsWith(s, pat)
    THEN trim_end_matches(SubSeq(s, 1, Len(s) - Len(pat)), pat)
    ELSE s

\* str::trim_end(): trailing whitespace is removed
RECURSIVE trim_end(_)
trim_end(s) ==
    IF s # <<>> /\ s[Len(s)] = " " THEN trim_end(SubSeq(s, 1, Len(s) - 1)) ELSE s

\* CleanedErrorTextStep::new
CleanedErrorTextStep(error) == [error |-> error, error_text |-> error[1].text]

\* CleanedErrorText::new
CleanedErrorText(error) == Some(CleanedErrorTextStep(error))

\* the cleaned text of error_text against the text of its cause
cleaned_text(error_text, next_error_text) ==
    trim_end_matches(trim_end(trim_end_matches(error_text, next_error_text)), <<":">>)

\* <CleanedErrorText as Iterator>::next: the iterator afterwards, and the
\* Option of the item (error, text, cleaned) returned
nextStopsAtLast(self) ==
    IF ~ IsSome(self) THEN [self |-> None, item |-> None]
    ELSE LET step == Unwrap(self)
             src  == SourceOf(step.error)
         IN  IF IsSome(src)
             THEN LET next_error      == Unwrap(src)
                      next_error_text == next_error[1].text
                      kept    == cleaned_text(step.error_text, next_error_text)
                      cleaned == Len(kept) # Len(step.error_text)
                  IN  [self |-> Some([error |-> next_error,
                                      error_text |-> next_error_text]),
                       item |-> Some([error |-> step.error,
                                      text |-> SubSeq(step.error_text, 1, Len(kept)),
                                      cleaned |-> cleaned])]
             ELSE [self |-> None, item |-> None]
nextIgnoresCause(self) ==
    IF ~ IsSome(self) THEN [self |-> None, item |-> None]
    ELSE LET step == Unwrap(self)
             src  == SourceOf(step.error)
         IN  [self |-> IF IsSome(src) THEN CleanedErrorText(Unwrap(src)) ELSE None,
              item |-> Some([error |-> step.error, text |-> step.error_text,
                             cleaned |-> FALSE])]
next(self) ==
    IF ~ IsSome(self) THEN [self |-> None, item |-> None]
    ELSE LET step == Unwrap(self)
             src  == SourceOf(step.error)
         IN  IF IsSome(src)
             THEN LET next_error      == Unwrap(src)
                      next_error_text == next_error[1].text
                      kept    == cleaned_text(step.error_text, next_error_text)
                      cleaned == Len(kept) # Len(step.error_text)
                  IN  [self |-> Some([error |-> next_error,
                                      error_text |-> next_error_text]),
                       item |-> Some([error |-> step.error,
                                      text |-> SubSeq(step.error_text, 1, Len(kept)),
                                      cleaned |-> cleaned])]
             ELSE [self |-> None,
                   item |-> Some([error |-> step.error, text |-> step.error_text,
                                  cleaned |-> FALSE])]

\* every item the iterator yields from self on
RECURSIVE Collect(_)
Collect(self) ==
    LET r == next(self)
    IN  IF IsSome(r.item) THEN r.item \o Collect(r.self) ELSE <<>>

\* the header written before k cause lines, k counted up to 2
\* (sources.clone().take(2).count())
CausedBy(plurality) ==
    CASE plurality = 0 -> <<>>
      [] plurality = 1 ->
            <<BlankLine, Line("header", 0, <<"Caused by this error:">>, <<>>)>>
      [] OTHER ->
            <<BlankLine,
              Line("header", 0, <<"Caused by these errors (recent errors listed first):">>,
                   <<>>)>>

\* ReportFormatter::error_trace: what it writes to the formatter
error_traceCountsHead(e) ==
    LET sources == Tail(e)
    IN  <<Line("display", 0, e[1].text, <<>>)>>
            \o CausedBy(IF Len(e) < 2 THEN Len(e) ELSE 2)
            \o [i \in 1..Len(sources) |-> Line("cause", i, sources[i].text, <<>>)]
error_trace(e) ==
    LET sources   == Tail(e)
        plurality == IF Len(sources) < 2 THEN Len(sources) ELSE 2
    IN  <<Line("display", 0, e[1].text, <<>>)>>
            \o CausedBy(plurality)
            \o [i \in 1..Len(sources) |-> Line("cause", i, sources[i].text, <<>>)]

\* ReportFormatter::cleaned_error_trace from the line after
\* `let err: &dyn snafu::Error = todo!()` on, for a given err.  As written the
\* function stops at the todo!() and nothing calls it.
cleaned_error_trace(err) ==
    LET items        == Collect(CleanedErrorText(err))
        any_removed  == \E i \in 1..Len(items) : items[i].text = <<>>
        any_cleaned  == \E i \in 1..Len(items) : items[i].text # <<>> /\ items[i].cleaned
        visible      == SelectSeq(items, LAMBDA it : it.text # <<>>)
        cleaned_messages ==
            [i \in 1..Len(visible) |->
                IF visible[i].cleaned THEN visible[i].text \o <<" ", "*">>
                ELSE visible[i].text]
        note ==
            IF any_cleaned \/ any_removed
            THEN <<BlankLine,
                   Line("note", 0,
                        <<"NOTE: ">>
                          \o (IF any_cleaned
                              THEN <<"Some redundant information has been removed from the lines marked with *. ">>
                              ELSE <<"Some redundant information has been removed. ">>)
                          \o <<"Set SNAFU_RAW_ERROR_MESSAGES=1 to disable this behavior.">>,
                        <<>>)>>
            ELSE <<>>
    IN  IF cleaned_messages = <<>> THEN <<>>
        ELSE <<Line("display", 0, cleaned_messages[1], <<>>)>>
                \o (CASE Len(cleaned_messages) \in {0, 1} -> <<>>
                      [] Len(cleaned_messages) = 2 ->
                            <<BlankLine,
                              Line("header", 0, <<"Caused by this error:">>, <<>>)>>
                      [] OTHER ->
                            <<BlankLine,
                              Line("header", 0,
                                   <<"Caused by these errors (recent errors listed first):">>,
                                   <<>>)>>)
                \o [i \in 1..(Len(cleaned_messages) - 1) |->
                        Line("cause", i, cleaned_messages[i + 1], <<>>)]
                \o note

\* the backtrace block of the report: "\nBacktrace:\n{:?}"
BacktraceBlock(e) ==
    LET bt == FormattedBacktrace(e[1])
    IN  IF IsSome(bt)
        THEN <<BlankLine, Line("header", 0, <<"Backtrace:">>, <<>>),
               Line("backtrace", 0, <<>>, Unwrap(bt).frames)>>
        ELSE <<>>

\* <ReportFormatter as Display>::fmt: what it writes to the formatter.  The
\* choice on trace_cleaning_enabled() is commented out: error_trace always.
ReportFormatter(e) == error_trace(e) \o BacktraceBlock(e)

\* the eprintln! calls left in the formatter, in the order they run
DebugLines ==
    <<Line("debug", 0, <<"--- display">>, <<>>),
      Line("debug", 0, <<"--- error trace">>, <<>>)>>

\* the unit value and the Results a Report<E> is built around
Unit == "()"
OkUnit == Outcome("Result<(),E>", Some(Unit), None)
ErrUnit(e) == Outcome("Result<(),E>", None, Some(e))

\* Report::from_error
from_error(error) == ErrUnit(error)

\* Report::ok
ok == OkUnit

\* <Report<E> as Termination>::report: the exit status, and what is written to
\* the error stream
reportAlwaysFails(self) ==
    [exit |-> "FAILURE",
     written |-> IF IsOk(self) THEN <<>>
                 ELSE <<Line("prefix", 0, <<"Error: ">>, <<>>)>> \o DebugLines
                        \o ReportFormatter(Unwrap(self.err)) \o <<BlankLine>>]
Termination(self) ==
    IF IsOk(self) THEN [exit |-> "SUCCESS", written |-> <<>>]
    ELSE [exit |-> "FAILURE",
          written |-> <<Line("prefix", 0, <<"Error: ">>, <<>>)>> \o DebugLines
                        \o ReportFormatter(Unwrap(self.err)) \o <<BlankLine>>]

\* OnceBool::get(f): the cell is written by the first call only, and every call
\* returns what the cell holds
OnceBoolGet(cell, f) ==
    IF IsSome(cell) THEN [cell |-> cell, value |-> Unwrap(cell)]
    ELSE [cell |-> Some(f), value |-> f]

\* the values SNAFU_RAW_ERROR_MESSAGES takes: unset, "1", something else
VarValues == {None, Some(<<"1">>), Some(<<"0">>)}
Threads == {"main", "worker"}

\* trace_cleaning_enabled(), called on the state tg: the state afterwards and
\* the value returned
trace_cleaning_enabledUncached(tg) ==
    [DISABLED |-> Some(tg.var = Some(<<"1">>)), value |-> ~ (tg.var = Some(<<"1">>))]
trace_cleaning_enabled(tg) ==
    LET got == OnceBoolGet(tg.DISABLED, tg.var = Some(<<"1">>))
    IN  [DISABLED |-> got.cell, value |-> ~ got.value]

----------------------------------------------------------------------------
(* The reporting program: main obtains a Result<(), E>, builds a Report    *)
(* from it and returns it; the runtime calls Termination::report.  Any     *)
(* thread may set the toggle variable or ask whether cleaning is enabled.  *)

\* innermost texts and own texts of the errors main may fail with
ReportResults ==
    {OkUnit} \cup {ErrUnit(e) : e \in ErrorChains({<<"a">>}, {<<"a">>}, MaxLevels)}

InitReport ==
    /\ env \in {e \in Envs : e.span = "EMPTY"}
    /\ outcome \in ReportResults
    /\ last = NoCall
    /\ out = None
    /\ report = None
    /\ stderr = <<>>
    /\ exit = None
    /\ toggle \in {Untouched(v) : v \in VarValues}
    /\ walk = None

Built(by, self) ==
    /\ report = None
    /\ report' = Some([by |-> by, self |-> self])
    /\ UNCHANGED <<env, outcome, last, out, stderr, exit, toggle, walk>>

\* Report::capture(|| outcome)
Capture == Built("capture", outcome)

\* Report::capture_into_result(|| outcome): an Err is turned into a Report, an
\* Ok is handed back and no Report exists
CaptureIntoResult ==
    /\ IsErr(outcome)
    /\ Built("capture_into_result", from_error(Unwrap(outcome.err)))

\* Report::from_error(e)
FromError ==
    /\ IsErr(outcome)
    /\ Built("from_error", from_error(Unwrap(outcome.err)))

\* Report::from(outcome)
FromResult == Built("From<Result>", outcome)

\* Report::from(e)
FromE ==
    /\ IsErr(outcome)
    /\ Built("From<E>", from_error(Unwrap(outcome.err)))

\* Report::ok()
Ok == Built("ok", ok)

\* main returns the Report and the runtime calls report() on it
Terminate ==
    /\ IsSome(report) /\ exit = None
    /\ LET r == Termination(Unwrap(report).self)
       IN  /\ exit' = Some(r.exit)
           /\ stderr' = stderr \o r.written
    /\ UNCHANGED <<env, outcome, last, out, report, toggle, walk>>

\* std::env::set_var / remove_var on SNAFU_RAW_ERROR_MESSAGES
SetVar ==
    \E v \in VarValues :
        /\ v # toggle.var
        /\ toggle' = [toggle EXCEPT !.var = v]
        /\ UNCHANGED <<env, outcome, last, out, report, stderr, exit, walk>>

\* a thread calls trace_cleaning_enabled().  first keeps the variable as the
\* first call found it and the value that call returned; returned keeps the
\* latest call: its thread, its value, and whether it was the first one.
TraceCleaningEnabled ==
    \E t \in Threads :
        LET r == trace_cleaning_enabled(toggle)
        IN  /\ toggle' = [var      |-> toggle.var,
                          DISABLED |-> r.DISABLED,
                          first    |-> IF IsSome(toggle.first) THEN toggle.first
                                       ELSE Some([var |-> toggle.var, value |-> r.value]),
                          returned |-> Some([thread |-> t, value |-> r.value,
                                             later |-> IsSome(toggle.first)])]
            /\ UNCHANGED <<env, outcome, last, out, report, stderr, exit, walk>>

NextReport ==
    \/ Capture
    \/ CaptureIntoResult
    \/ FromError
    \/ FromResult
    \/ FromE
    \/ Ok
    \/ Terminate
    \/ SetVar
    \/ TraceCleaningEnabled

SpecReport == InitReport /\ [][NextReport]_vars

----------------------------------------------------------------------------
(* CleanedErrorText on error chains of up to MaxLevels levels: the        *)
(* innermost text is any string of up to MaxText characters, and the       *)
(* outermost error says any of OwnTexts of itself.                         *)

CleanedInputs ==
    LET causes == ErrorChains(Strings(MaxText), {<<"a">>}, MaxLevels - 1)
    IN  {c \in causes : Len(c) = 1} \cup UNION {Wrapping(c, OwnTexts) : c \in causes}

InitCleaned ==
    /\ env = [bt |-> FALSE, span |-> "EMPTY"]
    /\ outcome \in {ErrUnit(e) : e \in CleanedInputs}
    /\ last = NoCall
    /\ out = None
    /\ NoReport

\* let mut walk = CleanedErrorText::new(&e)
New ==
    /\ walk = None
    /\ walk' = Some([self |-> CleanedErrorText(Unwrap(outcome.err)),
                     items |-> <<>>, ended |-> FALSE])
    /\ UNCHANGED <<env, outcome, last, out, report, stderr, exit, toggle>>

\* walk.next(): the item returned is appended to items; ended records that the
\* call returned None
IterNext ==
    /\ IsSome(walk)
    /\ LET r == next(Unwrap(walk).self)
       IN  walk' = Some([self  |-> r.self,
                         items |-> Unwrap(walk).items \o r.item,
                         ended |-> ~ IsSome(r.item)])
    /\ UNCHANGED <<env, outcome, last, out, report, stderr, exit, toggle>>

NextCleaned == New \/ IterNext

SpecCleaned == InitCleaned /\ [][NextCleaned]_vars

----------------------------------------------------------------------------
(* TestError (src/src/testerror.rs): the same four variants, with a String *)
(* message; TestResultExt has context and with_context only.  A program    *)
(* holding a foreign Result or an Option attaches context with it; only    *)
(* the Message and Whatever variants arise.                                *)

OkTest(v)  == Outcome("Result<T,TestError>", Some(v), None)
ErrTest(e) == Outcome("Result<T,TestError>", None, Some(e))

\* the TestError built around what self failed with: Message around a foreign
\* error or NoneError, Whatever around a TestError
TestWrap(self, message) ==
    CASE self.ty = "Result<T,E>" ->
            ErrorValue("Message", Some(message), GenerateSpanTrace,
                       Unwrap(self.err), GenerateBacktrace(<<>>))
      [] self.ty = "Option<T>" ->
            ErrorValue("Message", Some(message), GenerateSpanTrace,
                       <<NoneError>>, GenerateBacktrace(<<>>))
      [] self.ty = "Result<T,TestError>" ->
            ErrorValue("Whatever", Some(message), GenerateSpanTrace,
                       Some(Unwrap(self.err)), GenerateBacktrace(<<>>))

\* TestResultExt::context and TestResultExt::with_context
TestResultExtContext(self, context) ==
    IF IsOk(self) THEN Call(OkTest(Unwrap(self.ok)), 0, 0)
    ELSE Call(ErrTest(TestWrap(self, context)), 2, 0)
TestResultExtWithContext(self, produces) ==
    IF IsOk(self) THEN Call(OkTest(Unwrap(self.ok)), 0, 0)
    ELSE Call(ErrTest(TestWrap(self, produces)), 2, 1)

\* source.downcast_ref::<&(dyn std::error::Error + 'static)>(): Some exactly
\* when the concrete type of the boxed error is &'static dyn std::error::Error
DowncastRefStdError(link) == link.kind = "RefStdError"

\* body of TestError's probe loops
TestProbe(s) ==
    IF DowncastRefFormatted(s)
    THEN Node(FormattedBacktrace(s), Formatted(s))
    ELSE Node(None, SourceError(s))

SourceTestError(e) == [tag |-> "TestError", ref |-> Some(e)]

\* TestError::stack, Message and Whatever arms: Some of the nodes, or None when
\* the call panics at .expect("known good")
RECURSIVE TestStack(_)
TestStack(e) ==
    IF e.variant = "Message"
    THEN IF DowncastRefStdError(e.source[1])
         THEN Some(<<Node(Backtrace(e), Root)>>
                     \o [i \in 1..Len(e.source) |-> TestProbe(e.source[i])])
         ELSE None
    ELSE IF IsSome(e.source)
         THEN IF IsSome(TestStack(Unwrap(e.source)))
              THEN Some(<<Node(Backtrace(e), Root),
                          Node(Backtrace(Unwrap(e.source)),
                               SourceTestError(Unwrap(e.source)))>>
                          \o Unwrap(TestStack(Unwrap(e.source))))
              ELSE None
         ELSE Some(<<Node(Backtrace(e), Root)>>)

InitTest ==
    /\ env \in Envs
    /\ outcome \in ForeignResults \cup Options
    /\ last = NoCall
    /\ out = None
    /\ NoReport

\* the Err of a Result<T, TestError> may be wrapped once more
CanWrapTest ==
    (outcome.ty = "Result<T,TestError>" /\ IsErr(outcome))
        => Depth(Unwrap(outcome.err)) < MaxWraps

\* outcome.context(context)
TestContext ==
    \E context \in Msgs :
        /\ CanWrapTest
        /\ Return("context", TestResultExtContext(outcome, context))

\* outcome.with_context(|| produces)
TestWithContext ==
    \E produces \in Msgs :
        /\ CanWrapTest
        /\ Return("with_context", TestResultExtWithContext(outcome, produces))

NextTest == TestContext \/ TestWithContext

SpecTest == InitTest /\ [][NextTest]_vars

----------------------------------------------------------------------------
(* Properties                                                              *)

HoldsError == outcome.ty = "Result<T,Error>" /\ IsErr(outcome)
Held       == Unwrap(outcome.err)
Input      == Unwrap(last.input)
ExtOps     == {"context", "with_context", "e"}
ByExt(tys) == last.op \in ExtOps /\ IsSome(last.input) /\ Input.ty \in tys
IsRoot(n)  == n.source.tag = "Root"
Rendered   == IsSome(out)
Written    == Unwrap(out)

\* C1: Err(E).context(msg) for a foreign E with n links gives an Error whose
\* stack() has n + 1 nodes: Root, then one node per link of E, outermost first.
C1_ContextChainLength ==
    (ByExt({"Result<T,E>"}) /\ last.op = "context" /\ IsErr(Input)) =>
        /\ HoldsError
        /\ LET chain == Unwrap(Input.err)
               st    == stack(Held)
           IN  /\ Len(st) = Len(chain) + 1
               /\ IsRoot(st[1])
               /\ \A i \in 1..Len(chain) :
                    /\ st[i + 1].source.tag \in {"Formatted", "SnafuError"}
                    /\ Unwrap(st[i + 1].source.ref) = chain[i]

C1_Witness ==
    /\ ByExt({"Result<T,E>"}) /\ last.op = "context" /\ IsErr(Input)
    /\ Len(Unwrap(Input.err)) >= 2
    /\ Len(stack(Held)) = 3

\* C2: on None, context, with_context and e each return Err whose stack() is
\* Root followed by one node reading "Expected some, found none"; on Some(v)
\* each returns Ok(v).
C2_OptionAbsence ==
    ByExt({"Option<T>"}) =>
        IF IsOk(Input)
        THEN outcome = OkError(Unwrap(Input.ok))
        ELSE /\ HoldsError
             /\ LET st == stack(Held)
                IN  /\ Len(st) = 2
                    /\ IsRoot(st[1])
                    /\ ~ IsRoot(st[2])
                    /\ SourceDisplay(st[2].source) = <<"Expected some, found none">>

C2_Witness ==
    /\ ByExt({"Option<T>"}) /\ last.op = "with_context" /\ IsErr(Input)
    /\ Len(stack(Held)) = 2

\* C3: the Error built by e() displays exactly as the cause it wraps: a foreign
\* cause (Message, message None) or a re-wrapped Error (Whatever, message None).
C3_NoMessageDisplay ==
    (ByExt({"Result<T,E>", "Result<T,Error>"}) /\ last.op = "e" /\ IsErr(Input)) =>
        /\ HoldsError
        /\ Held.message = None
        /\ IF Input.ty = "Result<T,E>"
           THEN /\ Held.variant = "Message"
                /\ Display(Held) = Unwrap(Input.err)[1].text
           ELSE /\ Held.variant = "Whatever"
                /\ Display(Held) = Display(Unwrap(Input.err))

C3_Witness ==
    /\ ByExt({"Result<T,Error>"}) /\ last.op = "e" /\ IsErr(Input)
    /\ Unwrap(Input.err).variant = "Message"
    /\ Unwrap(Input.err).message = None
    /\ Display(Held) = <<"sad IO">>

\* C4: on Ok(v) / Some(v), context, with_context and e return Ok(v), build no
\* Error, capture nothing and do not invoke the producer; on the failure path
\* with_context invokes the producer exactly once.
C4_SuccessUntouched ==
    ByExt({"Result<T,E>", "Result<T,Error>", "Option<T>"}) =>
        /\ IsOk(Input) =>
             /\ outcome = OkError(Unwrap(Input.ok))
             /\ last.generated = 0
             /\ last.produced = 0
        /\ (IsErr(Input) /\ last.op = "with_context") => last.produced = 1

C4_Witness ==
    /\ ByExt({"Result<T,Error>"}) /\ last.op = "with_context" /\ IsOk(Input)
    /\ outcome = Input

\* C5 as stated: the stack() of a Whatever with nested Error N is the Root
\* node followed by exactly stack(N); with no nested cause it is [Root].
C5_Original ==
    (HoldsError /\ Held.variant = "Whatever") =>
        stack(Held) = <<Node(Backtrace(Held), Root)>>
                        \o (IF IsSome(Held.source) THEN stack(Unwrap(Held.source)) ELSE <<>>)

\* C5 amended: the stack() of a Whatever with nested Error N is the Root node,
\* then one node for N itself (source Error(N), carrying N's own backtrace),
\* then exactly stack(N); with no nested cause it is [Root].
C5_NestedNodeThenStack ==
    (HoldsError /\ Held.variant = "Whatever") =>
        LET st == stack(Held)
        IN  /\ IsRoot(st[1]) /\ st[1].backtrace = Backtrace(Held)
            /\ IF IsSome(Held.source)
               THEN LET N == Unwrap(Held.source)
                    IN  /\ Len(st) = Len(stack(N)) + 2
                        /\ st[2].source.tag = "Error"
                        /\ Unwrap(st[2].source.ref) = N
                        /\ st[2].backtrace = Backtrace(N)
                        /\ SubSeq(st, 3, Len(st)) = stack(N)
               ELSE Len(st) = 1

C5_Witness ==
    /\ HoldsError /\ Held.variant = "Whatever" /\ IsSome(Held.source)
    /\ Unwrap(Held.source).variant = "Whatever"
    /\ Len(stack(Held)) >= 5

\* C6: the stack() of an Error built by any sequence of re-wraps never has two
\* Root nodes at consecutive positions.
C6_NoAdjacentRoots ==
    HoldsError =>
        LET st == stack(Held)
        IN  \A i \in 1..(Len(st) - 1) : ~ (IsRoot(st[i]) /\ IsRoot(st[i + 1]))

C6_Witness ==
    /\ HoldsError /\ Depth(Held) >= 2
    /\ Cardinality({i \in 1..Len(stack(Held)) : IsRoot(stack(Held)[i])}) >= 3

\* the cause lines of the rendering, in the order written
CauseLinesWritten == SelectSeq(Written.text, LAMBDA l : l.kind = "cause")

\* C7 as stated: the k-th cause line of the Debug rendering (k = 0, 1, ...)
\* carries index k.
C7_Original ==
    Rendered =>
        \A k \in 1..Len(CauseLinesWritten) : CauseLinesWritten[k].index = k - 1

\* the node of stack() a chain link produced
LinkNodes(st) == {i \in 1..Len(st) : st[i].source.tag \in {"Formatted", "SnafuError"}}

\* C8 as stated: in stack(), the node of a foreign chain link carries the
\* link's backtrace when the link exposes one, and None otherwise.
C8_Original ==
    HoldsError =>
        LET st == stack(Held)
        IN  \A i \in LinkNodes(st) :
                st[i].backtrace = FormattedBacktrace(Unwrap(st[i].source.ref))

\* the backtrace blocks of the rendering, in the order written
BlocksWritten == SelectSeq(Written.text, LAMBDA l : l.kind = "backtrace")

\* the frames the rendering shows
FramesWritten ==
    UNION {{BlocksWritten[i].frames[j] : j \in 1..Len(BlocksWritten[i].frames)} :
             i \in 1..Len(BlocksWritten)}

\* the trait-implementation prefix and the anyhow constructor of the Error type
\* of module error
OwnPrefixes ==
    { <<"<n0_snafu::", "error", "::Error">>,
      <<"n0_snafu::", "error", "::Error", "::anyhow">> }

\* C9 as stated: at every verbosity, no backtrace block of the Debug rendering
\* shows a frame whose name begins with <n0_snafu::error::Error or with
\* n0_snafu::error::Error::anyhow.
C9_Original ==
    Rendered =>
        \A f \in FramesWritten :
            IsSome(f.name) => \A p \in OwnPrefixes : ~ StartsWith(Unwrap(f.name), p)

\* a frame whose name starts with one of the four fixed prefixes
IsNoise(f) ==
    IsSome(f.name) /\ \E k \in 1..Len(filters) : StartsWith(Unwrap(f.name), filters[k])

----------------------------------------------------------------------------
(* Rendering twice; the termination report; the shape of stack()           *)

Items        == Unwrap(walk).items
TextOf(it)   == it.error[1].text
HasCause(it) == IsSome(SourceOf(it.error))
CauseOf(it)  == Unwrap(SourceOf(it.error))

\* C12 as stated: an item for an error whose display text does not end with the
\* display text of its cause carries that text unchanged with the cleaned flag
\* false, whatever the text ends in, and does not carry an empty text unless
\* the display text is empty.
C12_Original ==
    IsSome(walk) =>
        \A i \in 1..Len(Items) :
            LET it == Items[i]
            IN  (HasCause(it) /\ ~ EndsWith(TextOf(it), CauseOf(it)[1].text)) =>
                    /\ it.text = TextOf(it)
                    /\ ~ it.cleaned
                    /\ (TextOf(it) # <<>> => it.text # <<>>)

\* the text before ": " and the cause's text, for a text that ends with them
Before(text, c) == SubSeq(text, 1, Len(text) - Len(c) - 2)

\* an item for an error whose text is P, ": " and the text C of its cause, with
\* C non-empty and P non-empty and not ending with C, whitespace or ':'
Redundant(it) ==
    /\ HasCause(it)
    /\ LET c == CauseOf(it)[1].text
       IN  /\ c # <<>>
           /\ Len(TextOf(it)) > Len(c) + 2
           /\ EndsWith(TextOf(it), <<":", " ">> \o c)
           /\ LET p == Before(TextOf(it), c)
              IN  /\ ~ EndsWith(p, c)
                  /\ p[Len(p)] \notin {" ", ":"}

Self    == Unwrap(report).self
BuiltBy == Unwrap(report).by
Failure == Unwrap(Self.err)

\* what the formatter wrote for the failure: the error stream without the
\* "Error: " prefix, the eprintln! lines and the newline that ends eprintln!
FormatterText ==
    LET shown == SelectSeq(stderr, LAMBDA l : l.kind \notin {"prefix", "debug"})
    IN  SubSeq(shown, 1, Len(shown) - 1)

\* C14 as stated: report() on a failed Report writes the failure's display
\* text; then, if text cleaning is enabled, the caused-by trailer of the
\* cleaned levels, otherwise the raw cause chain; then the backtrace block if
\* the failure has a backtrace.
C14_Original ==
    [][(IsSome(report) /\ IsErr(Self) /\ exit = None /\ IsSome(exit')) =>
          LET e       == Failure
              enabled == trace_cleaning_enabled(toggle).value
              written == SubSeq(stderr', Len(stderr) + 1, Len(stderr'))
              text    == SelectSeq(written, LAMBDA l : l.kind \notin {"prefix", "debug"})
              trace   == IF enabled THEN cleaned_error_trace(e) ELSE error_trace(e)
          IN  /\ text[1].kind = "display"
              /\ Tail(text) = Tail(trace) \o BacktraceBlock(e) \o <<BlankLine>>]_vars

\* C15: report() returns SUCCESS and leaves the error stream empty when the
\* Report holds Ok; it returns FAILURE, with "Error: " and the failure's
\* display text written to the error stream, when it holds Err.  A Report holds
\* the Result or the error it was built from, whichever constructor built it,
\* and nothing is written before report() is called.
C15_ExitStatus ==
    /\ IsSome(report) =>
          /\ BuiltBy \in {"capture", "From<Result>"} => Self = outcome
          /\ BuiltBy \in {"from_error", "From<E>", "capture_into_result"} =>
                IsErr(outcome) /\ IsErr(Self) /\ Failure = Unwrap(outcome.err)
          /\ BuiltBy = "ok" => IsOk(Self)
    /\ exit = None => stderr = <<>>
    /\ IsSome(exit) =>
          /\ IsSome(report)
          /\ IsOk(Self) => (exit = Some("SUCCESS") /\ stderr = <<>>)
          /\ IsErr(Self) =>
                /\ exit = Some("FAILURE")
                /\ stderr[1] = Line("prefix", 0, <<"Error: ">>, <<>>)
                /\ \E i \in 2..Len(stderr) :
                      stderr[i] = Line("display", 0, Failure[1].text, <<>>)

\* a failed Report built by From<E>, reported
C15_Witness ==
    /\ IsSome(report) /\ BuiltBy = "From<E>" /\ IsErr(Self)
    /\ exit = Some("FAILURE") /\ stderr # <<>>

\* the caused-by headers and the cause lines of a text, in the order written
Headers(text) ==
    SelectSeq(text, LAMBDA l : l.kind = "header" /\ l.text # <<"Backtrace:">>)
Causes(text) == SelectSeq(text, LAMBDA l : l.kind = "cause")

\* the header rule on a text, for the k cause lines it shows
HeaderRule(text) ==
    LET k == Len(Causes(text))
    IN  /\ k = 0 => Headers(text) = <<>>
        /\ k = 1 => Headers(text) = <<Line("header", 0, <<"Caused by this error:">>, <<>>)>>
        /\ k >= 2 => Headers(text) =
              <<Line("header", 0, <<"Caused by these errors (recent errors listed first):">>,
                     <<>>)>>
        /\ \A i \in 1..k : Causes(text)[i].index = i
        /\ \A i \in 1..Len(text) : \A j \in 1..Len(text) :
              (text[i].kind = "header" /\ text[i].text # <<"Backtrace:">>
                 /\ text[j].kind = "cause") => i < j

\* C16: the text report() writes for a failure with k cause levels has no
\* caused-by header when k = 0, "Caused by this error:" when k = 1 and "Caused
\* by these errors (recent errors listed first):" when k >= 2, before the
\* cause lines; these are numbered 1..k and carry the causes' texts, outermost
\* first.  The cleaned listing follows the same header and numbering rule.
C16_HeaderByPlurality ==
    (IsSome(exit) /\ IsErr(Self)) =>
        /\ HeaderRule(FormatterText)
        /\ Len(Causes(FormatterText)) = Len(Failure) - 1
        /\ \A i \in 1..Len(Causes(FormatterText)) :
              Causes(FormatterText)[i].text = Failure[i + 1].text
        /\ HeaderRule(cleaned_error_trace(Failure))

\* a failure with two cause levels, reported
C16_Witness ==
    /\ IsSome(exit) /\ IsSome(report) /\ IsErr(Self) /\ Len(Failure) = 3
    /\ Len(Causes(FormatterText)) = 2
    /\ Len(Headers(FormatterText)) = 1

\* C17: every call of trace_cleaning_enabled() returns what the first call
\* returned, from whichever thread and whatever the variable holds by then;
\* and the first call returned false exactly when the variable held "1".
C17_FirstCallDecides ==
    IsSome(toggle.returned) =>
        /\ IsSome(toggle.first)
        /\ Unwrap(toggle.returned).value = Unwrap(toggle.first).value
        /\ Unwrap(toggle.first).value = (Unwrap(toggle.first).var # Some(<<"1">>))

\* a later call from another thread, after the variable was removed, still
\* answers what the first call answered when the variable held "1"
C17_Witness ==
    /\ IsSome(toggle.returned) /\ IsSome(toggle.first)
    /\ Unwrap(toggle.first).var = Some(<<"1">>)
    /\ toggle.var = None
    /\ Unwrap(toggle.returned).later
    /\ Unwrap(toggle.returned).thread = "worker"
    /\ Unwrap(toggle.returned).value = FALSE

\* C18: the stack() of an Error made by From (the Source variant) from an error
\* W with m declared causes has m + 2 nodes: Root with the Error's own
\* backtrace, the node of W with W's backtrace if W has one, then one node per
\* declared cause, outermost first.
C18_SourceVariantStack ==
    (HoldsError /\ Held.variant = "Source") =>
        LET chain == Held.source
            st    == stack(Held)
        IN  /\ Len(st) = (Len(chain) - 1) + 2
            /\ st[1] = Node(Backtrace(Held), Root)
            /\ st[2].source = Formatted(chain[1])
            /\ st[2].backtrace = FormattedBacktrace(chain[1])
            /\ \A i \in 2..Len(chain) :
                  /\ st[i + 1].source.tag \in {"Formatted", "SnafuError"}
                  /\ st[i + 1].source.ref = Some(chain[i])

\* From on a struct error that captured a backtrace and has one declared cause
C18_Witness ==
    /\ HoldsError /\ Held.variant = "Source" /\ last.op = "from"
    /\ Len(Held.source) = 2
    /\ Len(stack(Held)) = 3
    /\ IsSome(stack(Held)[1].backtrace)
    /\ IsSome(stack(Held)[2].backtrace)

\* C19: the stack() of an Error made by Error::anyhow from an anyhow::Error
\* with a chain of n links has n + 1 nodes: Root, the node of the anyhow::Error
\* with its backtrace in the Std representation, whether captured or not, then
\* one node for each of the n - 1 links after the first, in order.
C19_AnyhowVariantStack ==
    (HoldsError /\ Held.variant = "Anyhow") =>
        LET chain == Held.source.chain
            st    == stack(Held)
        IN  /\ Len(st) = Len(chain) + 1
            /\ st[1] = Node(Backtrace(Held), Root)
            /\ st[2].source = SourceAnyhow(Held.source)
            /\ st[2].backtrace = Some(Std(Held.source.backtrace))
            /\ \A i \in 2..Len(chain) :
                  /\ st[i + 1].source.tag \in {"Formatted", "SnafuError"}
                  /\ st[i + 1].source.ref = Some(chain[i])

\* Error::anyhow on a two-link anyhow::Error while backtraces are disabled
C19_Witness ==
    /\ HoldsError /\ Held.variant = "Anyhow" /\ last.op = "anyhow"
    /\ Len(Held.source.chain) = 2
    /\ Len(stack(Held)) = 3
    /\ ~ env.bt
    /\ IsSome(stack(Held)[2].backtrace)

\* C20 as stated: the Debug rendering has one backtrace block per node of
\* stack(), each preceded by a blank line.
C20_Original ==
    Rendered =>
        /\ Len(BlocksWritten) = Len(stack(Held))
        /\ \A i \in 2..Len(Written.text) :
              Written.text[i].kind = "backtrace" => Written.text[i - 1] = BlankLine

----------------------------------------------------------------------------
(* How much the iterator removes; how many items it yields                 *)

\* a text without one trailing occurrence of pat, if it ends with one
StripOne(s, pat) ==
    IF EndsWith(s, pat) THEN SubSeq(s, 1, Len(s) - Len(pat)) ELSE s

\* C21 as stated: the text of an item for an error with a cause is the error's
\* display text without one trailing occurrence of the cause's text, then
\* without trailing whitespace, then without one trailing ':'; further
\* occurrences and further ':' stay.
C21_Original ==
    IsSome(walk) =>
        \A i \in 1..Len(Items) :
            HasCause(Items[i]) =>
                Items[i].text =
                    StripOne(trim_end(StripOne(TextOf(Items[i]), CauseOf(Items[i])[1].text)),
                             <<":">>)

\* the error walked, and the error of its i-th level
Walked   == Unwrap(outcome.err)
Level(i) == SubSeq(Walked, i, Len(Walked))

\* C22: for an error with n levels the iterator yields the items of levels
\* 1, 2, ... in this order, each with its own error, and never more than n;
\* the item of level n carries that level's display text with the cleaned
\* flag false; once n items are yielded the iterator holds no step, and a call
\* that returned None came after the n-th item.
C22_OneItemPerLevel ==
    IsSome(walk) =>
        LET n == Len(Walked)
        IN  /\ Len(Items) <= n
            /\ \A i \in 1..Len(Items) : Items[i].error = Level(i)
            /\ Len(Items) = n =>
                  /\ Items[n].text = Walked[n].text
                  /\ ~ Items[n].cleaned
                  /\ Unwrap(walk).self = None
                  /\ ~ IsSome(next(Unwrap(walk).self).item)
            /\ Len(Items) < n => ~ Unwrap(walk).ended /\ IsSome(Unwrap(walk).self)
            /\ Unwrap(walk).ended => Len(Items) = n

\* three levels walked to the end, and one more call that returned None
C22_Witness ==
    /\ IsSome(walk) /\ Len(Walked) = 3
    /\ Len(Items) = 3 /\ Unwrap(walk).ended
    /\ Items[1].cleaned /\ ~ Items[3].cleaned

----------------------------------------------------------------------------
(* TestError; re-wrapping; ErrorCompat::backtrace; panics                  *)

\* C23 as stated: for the TestError built by context or with_context from
\* Err(E), E a foreign error with n links, stack() returns without panicking
\* n + 1 nodes: Root, then one node per link of E.
C23_Original ==
    (outcome.ty = "Result<T,TestError>" /\ IsErr(outcome)
        /\ IsSome(last.input) /\ Input.ty = "Result<T,E>" /\ IsErr(Input)) =>
        LET chain == Unwrap(Input.err)
            st    == TestStack(Held)
        IN  /\ IsSome(st)
            /\ Len(Unwrap(st)) = Len(chain) + 1
            /\ IsRoot(Unwrap(st)[1])
            /\ \A i \in 1..Len(chain) : Unwrap(st)[i + 1].source.ref = Some(chain[i])

\* the Error values nested inside e, outermost first
RECURSIVE Nestings(_)
Nestings(e) ==
    IF e.variant = "Whatever" /\ IsSome(e.source)
    THEN <<Unwrap(e.source)>> \o Nestings(Unwrap(e.source))
    ELSE <<>>

\* s is the final segment of t
IsFinalSegment(s, t) ==
    /\ Len(s) <= Len(t)
    /\ SubSeq(t, Len(t) - Len(s) + 1, Len(t)) = s

\* the Error held was made by re-wrapping the Error of the input
Rewrapped ==
    /\ HoldsError
    /\ last.op \in ExtOps \cup {"with_source"}
    /\ IsSome(last.input) /\ Input.ty = "Result<T,Error>" /\ IsErr(Input)

\* C24: the stack() of a re-wrap w of an Error e (context, with_context, e() on
\* Result<_, Error>, with_source) is longer than stack(e) and ends with stack(e)
\* unchanged; w holds e as it was, message, cause and backtrace; and the
\* stack() of every Error nested in the Error held, at any depth, is a final
\* segment of the stack() of the Error held.
C24_RewrapKeepsStack ==
    /\ Rewrapped =>
          LET e == Unwrap(Input.err)
          IN  /\ Len(stack(Held)) > Len(stack(e))
              /\ IsFinalSegment(stack(e), stack(Held))
              /\ Held.source = Some(e)
    /\ HoldsError =>
          \A k \in 1..Len(Nestings(Held)) :
              /\ Len(stack(Nestings(Held)[k])) < Len(stack(Held))
              /\ IsFinalSegment(stack(Nestings(Held)[k]), stack(Held))

\* an Error over a two-link foreign chain, re-wrapped twice, last by with_source
C24_Witness ==
    /\ Rewrapped /\ last.op = "with_source"
    /\ Len(Nestings(Held)) = 2
    /\ Nestings(Held)[2].variant = "Message"
    /\ Len(Nestings(Held)[2].source) = 2
    /\ Len(stack(Held)) = 7

\* C25: ErrorCompat::backtrace of an Error returns the backtrace of the last
\* node of stack() when that node carries one in the Crate representation, and
\* None when it carries none or one in the Std representation; what it
\* returns is the Error's own backtrace, the one of Root, only when stack() is
\* Root alone.
C25_LastNodeBacktrace ==
    HoldsError =>
        LET st   == stack(Held)
            node == st[Len(st)]
            r    == ErrorCompatBacktrace(Held)
        IN  /\ IF IsSome(node.backtrace) /\ Unwrap(node.backtrace).repr = "Crate"
               THEN /\ IsSome(r)
                    /\ Unwrap(r).node = Len(st)
                    /\ Unwrap(r).frames = Unwrap(node.backtrace).frames
               ELSE r = None
            /\ (IsSome(r) /\ Unwrap(r).node = 1) => Len(st) = 1

\* an Anyhow Error that captured its own backtrace: the last node carries a Std
\* backtrace and ErrorCompat::backtrace returns None
C25_Witness ==
    /\ HoldsError /\ Held.variant = "Anyhow" /\ Len(Held.source.chain) = 1
    /\ IsSome(Held.backtrace)
    /\ stack(Held)[2].backtrace = Some(Std(Held.source.backtrace))
    /\ ErrorCompatBacktrace(Held) = None

\* C26 as stated: every Debug formatting of an Error runs to its end.
C26_Original == Rendered => Written.finished

====
